---- MODULE Spec2Model ----
(***************************************************************************)
(* Model of radioctrl/main.go: the gamepad listener goroutine and the gin   *)
(* HTTP handlers operate on the package-level variables stations,          *)
(* currentIdx, currentVol, mpvCmd and mpvMutex and on one child mpv        *)
(* process reached through a Unix socket.  Every access to a shared        *)
(* variable that the source makes outside mpvMutex is a step of its own,   *)
(* so that the interleavings of the goroutines are the model's behaviours. *)
(***************************************************************************)
EXTENDS Integers, Sequences, FiniteSets, TLC

(* ------------------------------ bounds -------------------------------- *)
MaxLen == 2          \* Spec: longest fetched station list
MaxCalls == 2        \* Spec: operations called in one behaviour
SeqMaxLen == 3       \* SpecSeq: longest fetched station list
SeqMaxCalls == 3     \* SpecSeq: operations called in one behaviour
MaxDelta == 12       \* SpecVol: largest |delta| given to AdjustVolume
PadMaxLen == 1       \* SpecPad: longest fetched station list
PadMaxCalls == 2     \* SpecPad: operations called in one behaviour
SendMaxCalls == 2    \* SpecSend: operations called after the first Play()
LiveMaxCalls == 2    \* SpecLive: operations called in one behaviour

(* ------------------------- program constants -------------------------- *)
InitialVol == 50     \* var currentVol int = 50
VolMin == 0
VolMax == 100
VolStep == 10        \* AdjustVolume(10) / AdjustVolume(-10)
PollLimit == 50      \* for i := 0; i < 50; i++
ButtonType == 1      \* event.Type != 1
Pressed == 1         \* event.Value != 1

Gamepad == 0         \* the goroutine of StartGamepadListener
Http == 1            \* a goroutine serving one HTTP request at a time
Threads == {Gamepad, Http}
NoThread == 0 - 1    \* mpvMutex unlocked
NoVol == 0 - 1       \* a player that has received no set_property volume
NoPid == 0

StartOps == {"play", "next", "prev"}
VolOps == {"volup", "voldown"}
\* the operations behind the routes of setupServer and the buttons
Ops == {"status", "stop"} \cup StartOps \cup VolOps

\* The station list the API returns: n records {name, url}.
Catalog(n) == [i \in 1..n |-> [name |-> i, url |-> i]]
Catalogs(maxLen) == {Catalog(n) : n \in 0..maxLen}

\* DefaultConfig().ButtonMappings
config ==
    [Play |-> 0, Next |-> 1, Previous |-> 2, Stop |-> 3, VolumeDown |-> 6, VolumeUp |-> 7]

\* JoystickEvent records the device can deliver (Time is not used).
Events == [Type : {ButtonType, 2}, Value : {0, Pressed}, Number : {0, 1, 2, 3, 5, 6, 7}]
\* event := JoystickEvent{}
NoEvent == [Type |-> 0, Value |-> 0, Number |-> 0]

VARIABLES
    mainPc,      \* position of main(): fetch, go, run, serving, fatal, crashed
    stations,    \* var stations []RadioStation
    currentIdx,  \* var currentIdx int
    currentVol,  \* var currentVol int
    mpvMutex,    \* var mpvMutex sync.Mutex: the holder, or NoThread
    mpvCmd,      \* var mpvCmd *exec.Cmd: [isNil, process]
    spawned,     \* number of mpv processes started so far (the last pid)
    procs,       \* the live mpv processes: [pid, url, vol, playing, bound]
    sock,        \* the file at mpvSocket: NoPid (absent) or the pid that bound it
    conns,       \* connections to the socket that are open
    pc,          \* each goroutine's position; the listener has returned an error
                 \* at "ended" and nil at "stopped"
    op,          \* the operation each goroutine is executing
    url,         \* StartMPV's argument
    delta,       \* AdjustVolume's argument
    reg,         \* the value a goroutine last loaded (or the poll counter i)
    err,         \* the error the goroutine's last operation returned
    cnt,         \* history: calls issued, by operation
    entry,       \* history: currentVol when the call of SpecVol was issued
    failed,      \* history: a SendMPVCommand has returned an error
    quit,        \* the channel quit of main: TRUE once it is closed
    event,       \* the local event of StartGamepadListener: the record last read
    lim          \* the bounds of the specification: [len, calls, ops]

vars == <<mainPc, stations, currentIdx, currentVol, mpvMutex, mpvCmd, spawned, procs,
          sock, conns, pc, op, url, delta, reg, err, cnt, entry, failed, quit, event,
          lim>>

shared == <<stations, currentIdx, currentVol>>
player == <<mpvMutex, mpvCmd, spawned, procs, sock, conns>>
locals == <<op, url, delta, reg, err>>
history == <<cnt, entry, failed, lim>>
listener == <<quit, event>>

Len0 == Len(stations)
\* stations[i], Go's zero-based index; out of range panics
InRange(i) == 0 <= i /\ i < Len0
StationAt(i) == stations[i + 1]

Alive(p) == \E q \in procs : q.pid = p
ProcOf(p) == CHOOSE q \in procs : q.pid = p
\* net.Dial("unix", mpvSocket) succeeds when the file is there and its owner listens
Listening == sock # NoPid /\ Alive(sock)

Home(t) == IF t = Gamepad THEN "select" ELSE "idle"
Exited == mainPc \in {"fatal", "crashed"}
\* goroutine t is at position l of a program that still runs
At(t, l) == ~Exited /\ pc[t] = l

(* ------------------------------- main --------------------------------- *)
\* stations, err = FetchRadioStations(...); log.Fatalf on error
Fetch ==
    /\ mainPc = "fetch"
    /\ \/ \E c \in Catalogs(lim.len) : stations' = c /\ mainPc' = "go"
       \/ mainPc' = "fatal" /\ UNCHANGED stations
    /\ UNCHANGED <<currentIdx, currentVol, player, pc, locals, history, listener>>

\* go func() { StartGamepadListener(...) }()
GoListener ==
    /\ mainPc = "go"
    /\ mainPc' = "run"
    /\ pc' = [pc EXCEPT ![Gamepad] = "open"]
    /\ UNCHANGED <<shared, player, locals, history, listener>>

\* r.Run(":" + config.ServerPort); log.Fatalf when it cannot listen
RunServer ==
    /\ mainPc = "run"
    /\ \/ mainPc' = "serving"
       \/ mainPc' = "fatal"
    /\ UNCHANGED <<shared, player, pc, locals, history, listener>>

(* -------------------- entering and leaving a call --------------------- *)
FirstPc(o) ==
    CASE o = "play" -> "pl_url"
      [] o = "next" -> "nx_load"
      [] o = "prev" -> "pv_load"
      [] o = "stop" -> "dial"
      [] o = "status" -> "st_idx"
      [] OTHER -> "av_load"

DeltaOf(o) == IF o = "volup" THEN VolStep ELSE IF o = "voldown" THEN 0 - VolStep ELSE 0

CountKey(o) ==
    CASE o = "play" -> "play" [] o = "next" -> "next" [] o = "prev" -> "prev"
      [] o = "volup" -> "up" [] o = "voldown" -> "down" [] OTHER -> "other"

\* The bound on the calls of one behaviour
Calls == cnt.play + cnt.next + cnt.prev + cnt.up + cnt.down + cnt.other
MayCall(o) == Calls < lim.calls /\ o \in lim.ops

Invoke(t, o) ==
    /\ MayCall(o)
    /\ pc' = [pc EXCEPT ![t] = FirstPc(o)]
    /\ op' = [op EXCEPT ![t] = o]
    /\ delta' = [delta EXCEPT ![t] = DeltaOf(o)]
    /\ cnt' = [cnt EXCEPT ![CountKey(o)] = @ + 1]
    /\ UNCHANGED <<url, reg, err, entry, failed, lim, listener>>

\* the operation returns e to the handler or to processGamepadEvent
Return(t, e) ==
    /\ pc' = [pc EXCEPT ![t] = "ret"]
    /\ err' = [err EXCEPT ![t] = e]
    /\ UNCHANGED <<op, url, delta, reg>>

\* a listener that returns when an operation has returned an error
RespondEndsOnError(t) ==
    /\ At(t, "ret")
    /\ pc' = [pc EXCEPT ![t] = IF t = Gamepad /\ err[t] # "nil" THEN "ended" ELSE Home(t)]
    /\ op' = [op EXCEPT ![t] = "none"]
    /\ url' = [url EXCEPT ![t] = 0]
    /\ delta' = [delta EXCEPT ![t] = 0]
    /\ reg' = [reg EXCEPT ![t] = 0]
    /\ err' = [err EXCEPT ![t] = "nil"]
    /\ UNCHANGED <<mainPc, shared, player, history, listener>>

\* the handler writes its response (500 with the error, or 200), and
\* processGamepadEvent logs the error: the goroutine is free again
Respond(t) ==
    /\ At(t, "ret")
    /\ pc' = [pc EXCEPT ![t] = Home(t)]
    /\ op' = [op EXCEPT ![t] = "none"]
    /\ url' = [url EXCEPT ![t] = 0]
    /\ delta' = [delta EXCEPT ![t] = 0]
    /\ reg' = [reg EXCEPT ![t] = 0]
    /\ err' = [err EXCEPT ![t] = "nil"]
    /\ UNCHANGED <<mainPc, shared, player, history, listener>>

\* a run-time panic: gin's Recovery answers 500 in a handler; in the listener's
\* goroutine nothing recovers and the program dies
Panic(t) ==
    IF t = Gamepad
    THEN mainPc' = "crashed" /\ UNCHANGED <<pc, locals>>
    ELSE Return(t, "panic") /\ UNCHANGED mainPc

(* ------------------------- the HTTP handlers -------------------------- *)
\* a request arrives at one of the routes of setupServer
Request(t) ==
    /\ mainPc = "serving"
    /\ At(t, "idle")
    /\ \E o \in Ops : Invoke(t, o)
    /\ UNCHANGED <<mainPc, shared, player>>

\* GET /status: stations[currentIdx].Name ...
StatusIdx(t) ==
    /\ At(t, "st_idx")
    /\ IF InRange(currentIdx)
       THEN /\ pc' = [pc EXCEPT ![t] = "st_vol"]
            /\ url' = [url EXCEPT ![t] = StationAt(currentIdx).name]
            /\ UNCHANGED <<mainPc, op, delta, reg, err>>
       ELSE Panic(t)
    /\ UNCHANGED <<shared, player, history, listener>>

\* ... currentVol, and c.JSON(http.StatusOK, gin.H{...}): url and reg hold the body
StatusVol(t) ==
    /\ At(t, "st_vol")
    /\ pc' = [pc EXCEPT ![t] = "ret"]
    /\ reg' = [reg EXCEPT ![t] = currentVol]
    /\ UNCHANGED <<mainPc, shared, player, op, url, delta, err, history, listener>>

(* ----------------------- the gamepad listener ------------------------- *)
\* os.OpenFile(devicePath, ...)
OpenDevice ==
    /\ At(Gamepad, "open")
    /\ \/ pc' = [pc EXCEPT ![Gamepad] = "select"]
       \/ pc' = [pc EXCEPT ![Gamepad] = "ended"]
    /\ UNCHANGED <<mainPc, shared, player, locals, history, listener>>

\* the loop of StartGamepadListener without the case <-quit
SelectIgnoresQuit ==
    /\ At(Gamepad, "select")
    /\ pc' = [pc EXCEPT ![Gamepad] = "read"]
    /\ UNCHANGED <<mainPc, shared, player, locals, history, listener>>

\* select { case <-quit: return nil; default: ... }
Select ==
    /\ At(Gamepad, "select")
    /\ pc' = [pc EXCEPT ![Gamepad] = IF quit THEN "stopped" ELSE "read"]
    /\ UNCHANGED <<mainPc, shared, player, locals, history, listener>>

\* the switch of processGamepadEvent: the first case that matches
ButtonOp(n) ==
    IF n = config.Play THEN "play"
    ELSE IF n = config.Next THEN "next"
    ELSE IF n = config.Previous THEN "prev"
    ELSE IF n = config.Stop THEN "stop"
    ELSE IF n = config.VolumeUp THEN "volup"
    ELSE IF n = config.VolumeDown THEN "voldown"
    ELSE "none"

\* processGamepadEvent without the test of event.Value
DispatchAnyValue(ev) ==
    IF ev.Type # ButtonType THEN "none" ELSE ButtonOp(ev.Number)

\* processGamepadEvent: the operation a record is translated to, "none" when
\* the record is ignored
Dispatch(ev) ==
    IF ev.Type # ButtonType \/ ev.Value # Pressed THEN "none" ELSE ButtonOp(ev.Number)

\* binary.Read(device, ...) and processGamepadEvent(event) in one step; the
\* record is not kept
ReadEvent ==
    /\ At(Gamepad, "read")
    /\ \/ /\ pc' = [pc EXCEPT ![Gamepad] = "ended"]
          /\ UNCHANGED <<locals, history, listener>>
       \/ \E ev \in Events :
            IF Dispatch(ev) = "none"
            THEN /\ pc' = [pc EXCEPT ![Gamepad] = "select"]
                 /\ UNCHANGED <<locals, history, listener>>
            ELSE Invoke(Gamepad, Dispatch(ev))
    /\ UNCHANGED <<mainPc, shared, player>>

\* binary.Read(device, binary.LittleEndian, &event); a record whose operation
\* is over the bound on the calls is not delivered
ReadRecord ==
    /\ At(Gamepad, "read")
    /\ \/ /\ pc' = [pc EXCEPT ![Gamepad] = "ended"]
          /\ UNCHANGED event
       \/ \E ev \in Events :
            /\ Dispatch(ev) = "none" \/ MayCall(Dispatch(ev))
            /\ event' = ev
            /\ pc' = [pc EXCEPT ![Gamepad] = "process"]
    /\ UNCHANGED <<mainPc, shared, player, locals, history, quit>>

\* processGamepadEvent(event)
ProcessEvent ==
    /\ At(Gamepad, "process")
    /\ IF Dispatch(event) = "none"
       THEN /\ pc' = [pc EXCEPT ![Gamepad] = "select"]
            /\ UNCHANGED <<locals, history, listener>>
       ELSE Invoke(Gamepad, Dispatch(event))
    /\ UNCHANGED <<mainPc, shared, player>>

\* close(quit) by the owner of the channel: the stop signal of the listener
CloseQuit ==
    /\ mainPc \in {"run", "serving"}
    /\ ~quit
    /\ quit' = TRUE
    /\ UNCHANGED <<mainPc, shared, player, pc, locals, history, event>>

(* ---------------------- PlayNextStation and co ------------------------ *)
\* currentIdx = (currentIdx + 1) % len(stations): the load
NextLoad(t) ==
    /\ At(t, "nx_load")
    /\ IF Len0 = 0
       THEN Panic(t)
       ELSE /\ pc' = [pc EXCEPT ![t] = "nx_store"]
            /\ reg' = [reg EXCEPT ![t] = currentIdx]
            /\ UNCHANGED <<mainPc, op, url, delta, err>>
    /\ UNCHANGED <<shared, player, history, listener>>

\* the store without the wrap-around
NextStoreNoWrap(t) ==
    /\ At(t, "nx_store")
    /\ currentIdx' = reg[t] + 1
    /\ pc' = [pc EXCEPT ![t] = "pl_url"]
    /\ UNCHANGED <<mainPc, stations, currentVol, player, locals, history, listener>>

\* ... and the store
NextStore(t) ==
    /\ At(t, "nx_store")
    /\ currentIdx' = (reg[t] + 1) % Len0
    /\ pc' = [pc EXCEPT ![t] = "pl_url"]
    /\ UNCHANGED <<mainPc, stations, currentVol, player, locals, history, listener>>

\* currentIdx = (currentIdx - 1 + len(stations)) % len(stations): the load
PrevLoad(t) ==
    /\ At(t, "pv_load")
    /\ IF Len0 = 0
       THEN Panic(t)
       ELSE /\ pc' = [pc EXCEPT ![t] = "pv_store"]
            /\ reg' = [reg EXCEPT ![t] = currentIdx]
            /\ UNCHANGED <<mainPc, op, url, delta, err>>
    /\ UNCHANGED <<shared, player, history, listener>>

PrevStore(t) ==
    /\ At(t, "pv_store")
    /\ currentIdx' = (reg[t] - 1 + Len0) % Len0
    /\ pc' = [pc EXCEPT ![t] = "pl_url"]
    /\ UNCHANGED <<mainPc, stations, currentVol, player, locals, history, listener>>

\* the argument of StartMPV: stations[currentIdx].URL
LoadURL(t) ==
    /\ At(t, "pl_url")
    /\ IF InRange(currentIdx)
       THEN /\ pc' = [pc EXCEPT ![t] = "lock"]
            /\ url' = [url EXCEPT ![t] = StationAt(currentIdx).url]
            /\ UNCHANGED <<mainPc, op, delta, reg, err>>
       ELSE Panic(t)
    /\ UNCHANGED <<shared, player, history, listener>>

(* ------------------------------ StartMPV ------------------------------ *)
\* Lock without mutual exclusion
LockNoExclusion(t) ==
    /\ At(t, "lock")
    /\ mpvMutex' = t
    /\ pc' = [pc EXCEPT ![t] = "kill"]
    /\ UNCHANGED <<mainPc, shared, mpvCmd, spawned, procs, sock, conns, locals, history, listener>>

\* mpvMutex.Lock()
Lock(t) ==
    /\ At(t, "lock")
    /\ mpvMutex = NoThread
    /\ mpvMutex' = t
    /\ pc' = [pc EXCEPT ![t] = "kill"]
    /\ UNCHANGED <<mainPc, shared, mpvCmd, spawned, procs, sock, conns, locals, history, listener>>

\* StartMPV without the kill of the player it replaces
KillSkipped(t) ==
    /\ At(t, "kill")
    /\ pc' = [pc EXCEPT ![t] = "remove"]
    /\ UNCHANGED <<mainPc, shared, player, locals, history, listener>>

\* if mpvCmd != nil && mpvCmd.Process != nil { Kill(); Wait() }
Kill(t) ==
    /\ At(t, "kill")
    /\ procs' = IF ~mpvCmd.isNil /\ mpvCmd.process # NoPid
                THEN {q \in procs : q.pid # mpvCmd.process}
                ELSE procs
    /\ pc' = [pc EXCEPT ![t] = "remove"]
    /\ UNCHANGED <<mainPc, shared, mpvMutex, mpvCmd, spawned, sock, conns, locals, history, listener>>

\* os.Remove(mpvSocket)
Remove(t) ==
    /\ At(t, "remove")
    /\ sock' = NoPid
    /\ pc' = [pc EXCEPT ![t] = "spawn"]
    /\ UNCHANGED <<mainPc, shared, mpvMutex, mpvCmd, spawned, procs, conns, locals, history, listener>>

\* StartMPV whose failing mpvCmd.Start() returns with the mutex still held
SpawnKeepsLock(t) ==
    /\ At(t, "spawn")
    /\ \/ /\ spawned' = spawned + 1
          /\ mpvCmd' = [isNil |-> FALSE, process |-> spawned + 1]
          /\ procs' = procs \cup {[pid |-> spawned + 1, url |-> url[t], vol |-> NoVol,
                                   playing |-> TRUE, bound |-> FALSE]}
          /\ pc' = [pc EXCEPT ![t] = "poll"]
          /\ reg' = [reg EXCEPT ![t] = 0]
          /\ UNCHANGED <<mpvMutex, op, url, delta, err>>
       \/ /\ mpvCmd' = [isNil |-> FALSE, process |-> NoPid]
          /\ Return(t, "spawn")
          /\ UNCHANGED <<mpvMutex, spawned, procs>>
    /\ UNCHANGED <<mainPc, shared, sock, conns, history, listener>>

\* a failing mpvCmd.Start() after which PlayNextStation / PlayPrevStation put
\* currentIdx back
SpawnRollsBack(t) ==
    /\ At(t, "spawn")
    /\ \/ /\ spawned' = spawned + 1
          /\ mpvCmd' = [isNil |-> FALSE, process |-> spawned + 1]
          /\ procs' = procs \cup {[pid |-> spawned + 1, url |-> url[t], vol |-> NoVol,
                                   playing |-> TRUE, bound |-> FALSE]}
          /\ pc' = [pc EXCEPT ![t] = "poll"]
          /\ reg' = [reg EXCEPT ![t] = 0]
          /\ UNCHANGED <<mpvMutex, op, url, delta, err, currentIdx>>
       \/ /\ mpvCmd' = [isNil |-> FALSE, process |-> NoPid]
          /\ mpvMutex' = NoThread
          /\ Return(t, "spawn")
          /\ currentIdx' = IF op[t] = "next" THEN (currentIdx - 1 + Len0) % Len0
                           ELSE IF op[t] = "prev" THEN (currentIdx + 1) % Len0
                           ELSE currentIdx
          /\ UNCHANGED <<spawned, procs>>
    /\ UNCHANGED <<mainPc, stations, currentVol, sock, conns, history, listener>>

\* mpvCmd = exec.Command("mpv", ..., url); mpvCmd.Start().  On failure the
\* deferred Unlock runs and the error is returned.
Spawn(t) ==
    /\ At(t, "spawn")
    /\ \/ /\ spawned' = spawned + 1
          /\ mpvCmd' = [isNil |-> FALSE, process |-> spawned + 1]
          /\ procs' = procs \cup {[pid |-> spawned + 1, url |-> url[t], vol |-> NoVol,
                                   playing |-> TRUE, bound |-> FALSE]}
          /\ pc' = [pc EXCEPT ![t] = "poll"]
          /\ reg' = [reg EXCEPT ![t] = 0]
          /\ UNCHANGED <<mpvMutex, op, url, delta, err>>
       \/ /\ mpvCmd' = [isNil |-> FALSE, process |-> NoPid]
          /\ mpvMutex' = NoThread
          /\ Return(t, "spawn")
          /\ UNCHANGED <<spawned, procs>>
    /\ UNCHANGED <<mainPc, shared, sock, conns, history, listener>>

\* a poll loop without the bound of 50: it waits until the socket is there
PollUnbounded(t) ==
    /\ At(t, "poll")
    /\ IF sock = NoPid
       THEN /\ reg' = [reg EXCEPT ![t] = IF @ < PollLimit THEN @ + 1 ELSE @]
            /\ UNCHANGED <<pc, delta>>
       ELSE /\ pc' = [pc EXCEPT ![t] = "av_load"]
            /\ delta' = [delta EXCEPT ![t] = 0]
            /\ reg' = [reg EXCEPT ![t] = 0]
    /\ UNCHANGED <<mainPc, shared, player, op, url, err, history, listener>>

\* for i := 0; i < 50; i++ { if os.Stat(mpvSocket) == nil { break }; Sleep }
\* then time.Sleep(500ms) and the call AdjustVolume(0)
Poll(t) ==
    /\ At(t, "poll")
    /\ IF reg[t] < PollLimit /\ sock = NoPid
       THEN /\ reg' = [reg EXCEPT ![t] = @ + 1]
            /\ UNCHANGED <<pc, delta>>
       ELSE /\ pc' = [pc EXCEPT ![t] = "av_load"]
            /\ delta' = [delta EXCEPT ![t] = 0]
            /\ reg' = [reg EXCEPT ![t] = 0]
    /\ UNCHANGED <<mainPc, shared, player, op, url, err, history, listener>>

\* the deferred mpvMutex.Unlock(); return nil
Unlock(t) ==
    /\ At(t, "unlock")
    /\ mpvMutex' = NoThread
    /\ Return(t, "nil")
    /\ UNCHANGED <<mainPc, shared, mpvCmd, spawned, procs, sock, conns, history, listener>>

(* ---------------------------- AdjustVolume ---------------------------- *)
Clamp(v) == IF v < VolMin THEN VolMin ELSE IF v > VolMax THEN VolMax ELSE v

\* currentVol += delta: the load
VolLoad(t) ==
    /\ At(t, "av_load")
    /\ reg' = [reg EXCEPT ![t] = currentVol]
    /\ pc' = [pc EXCEPT ![t] = "av_store"]
    /\ UNCHANGED <<mainPc, shared, player, op, url, delta, err, history, listener>>

\* ... and the store
VolStore(t) ==
    /\ At(t, "av_store")
    /\ currentVol' = reg[t] + delta[t]
    /\ pc' = [pc EXCEPT ![t] = "av_test"]
    /\ UNCHANGED <<mainPc, stations, currentIdx, player, locals, history, listener>>

\* if currentVol < 0 ... else if currentVol > 100: the load
VolTest(t) ==
    /\ At(t, "av_test")
    /\ reg' = [reg EXCEPT ![t] = currentVol]
    /\ pc' = [pc EXCEPT ![t] = "av_clamp"]
    /\ UNCHANGED <<mainPc, shared, player, op, url, delta, err, history, listener>>

\* the clamp without its upper bound
VolClampLowOnly(t) ==
    /\ At(t, "av_clamp")
    /\ currentVol' = IF reg[t] < VolMin THEN VolMin ELSE currentVol
    /\ pc' = [pc EXCEPT ![t] = "av_fmt"]
    /\ UNCHANGED <<mainPc, stations, currentIdx, player, locals, history, listener>>

\* currentVol = 0 / currentVol = 100
VolClamp(t) ==
    /\ At(t, "av_clamp")
    /\ currentVol' = IF reg[t] < VolMin THEN VolMin
                     ELSE IF reg[t] > VolMax THEN VolMax ELSE currentVol
    /\ pc' = [pc EXCEPT ![t] = "av_fmt"]
    /\ UNCHANGED <<mainPc, stations, currentIdx, player, locals, history, listener>>

\* fmt.Sprintf(`{ "command": ["set_property", "volume", %d] }`, currentVol)
VolFormat(t) ==
    /\ At(t, "av_fmt")
    /\ reg' = [reg EXCEPT ![t] = currentVol]
    /\ pc' = [pc EXCEPT ![t] = "dial"]
    /\ UNCHANGED <<mainPc, shared, player, op, url, delta, err, history, listener>>

(* --------------------------- SendMPVCommand --------------------------- *)
\* where the caller of SendMPVCommand continues: StartMPV only logs the error
\* of AdjustVolume(0) and unlocks; the other callers return it
AfterSend(t, e) ==
    IF op[t] \in StartOps
    THEN /\ pc' = [pc EXCEPT ![t] = "unlock"]
         /\ UNCHANGED <<op, url, delta, reg, err>>
    ELSE Return(t, e)

\* net.Dial("unix", mpvSocket)
Dial(t) ==
    /\ At(t, "dial")
    /\ IF Listening
       THEN /\ conns' = conns + 1
            /\ pc' = [pc EXCEPT ![t] = "xfer"]
            /\ UNCHANGED <<op, url, delta, reg, err, failed>>
       ELSE /\ AfterSend(t, "channel")
            /\ failed' = TRUE
            /\ UNCHANGED conns
    /\ UNCHANGED <<mainPc, shared, mpvMutex, mpvCmd, spawned, procs, sock, cnt, entry, lim,
                   listener>>

\* what the player does with a message
Deliver(q, t) ==
    IF op[t] = "stop" THEN [q EXCEPT !.playing = FALSE] ELSE [q EXCEPT !.vol = reg[t]]

\* a stop that terminates the player instead of leaving it idle
TransferStopKills(t) ==
    /\ At(t, "xfer")
    /\ conns' = conns - 1
    /\ IF Listening
       THEN /\ procs' = IF op[t] = "stop" THEN procs \ {ProcOf(sock)}
                         ELSE (procs \ {ProcOf(sock)}) \cup {Deliver(ProcOf(sock), t)}
            /\ AfterSend(t, "nil")
            /\ UNCHANGED failed
       ELSE /\ AfterSend(t, "channel")
            /\ failed' = TRUE
            /\ UNCHANGED procs
    /\ UNCHANGED <<mainPc, shared, mpvMutex, mpvCmd, spawned, sock, cnt, entry, lim, listener>>

\* conn.Write, conn.Read (its failure is only logged), the deferred conn.Close.
\* The write fails when the player was killed after the connection was made.
Transfer(t) ==
    /\ At(t, "xfer")
    /\ conns' = conns - 1
    /\ IF Listening
       THEN /\ procs' = (procs \ {ProcOf(sock)}) \cup {Deliver(ProcOf(sock), t)}
            /\ AfterSend(t, "nil")
            /\ UNCHANGED failed
       ELSE /\ AfterSend(t, "channel")
            /\ failed' = TRUE
            /\ UNCHANGED procs
    /\ UNCHANGED <<mainPc, shared, mpvMutex, mpvCmd, spawned, sock, cnt, entry, lim, listener>>

\* SendMPVCommand statement by statement.  conn.Write: the player takes the
\* message; on failure the deferred conn.Close runs and the error is returned
Write(t) ==
    /\ At(t, "xfer")
    /\ IF Listening
       THEN /\ procs' = (procs \ {ProcOf(sock)}) \cup {Deliver(ProcOf(sock), t)}
            /\ pc' = [pc EXCEPT ![t] = "reply"]
            /\ UNCHANGED <<conns, op, url, delta, reg, err, failed>>
       ELSE /\ conns' = conns - 1
            /\ AfterSend(t, "channel")
            /\ failed' = TRUE
            /\ UNCHANGED procs
    /\ UNCHANGED <<mainPc, shared, mpvMutex, mpvCmd, spawned, sock, cnt, entry, lim, listener>>

\* a SendMPVCommand that returns the error of conn.Read
ReadReplyStrict(t) ==
    /\ At(t, "reply")
    /\ \/ /\ pc' = [pc EXCEPT ![t] = "close"]
          /\ UNCHANGED <<conns, op, url, delta, reg, err, failed>>
       \/ /\ conns' = conns - 1
          /\ AfterSend(t, "channel")
          /\ failed' = TRUE
    /\ UNCHANGED <<mainPc, shared, mpvMutex, mpvCmd, spawned, procs, sock, cnt, entry, lim,
                   listener>>

\* conn.Read(response): a reply or io.EOF, or an error, which is only logged
\* ("Warning: couldn't read MPV response")
ReadReply(t) ==
    /\ At(t, "reply")
    /\ \/ pc' = [pc EXCEPT ![t] = "close"]
       \/ pc' = [pc EXCEPT ![t] = "warn"]
    /\ UNCHANGED <<mainPc, shared, player, locals, history, listener>>

\* return nil, and the deferred conn.Close()
CloseConn(t) ==
    /\ At(t, "close") \/ At(t, "warn")
    /\ conns' = conns - 1
    /\ AfterSend(t, "nil")
    /\ UNCHANGED <<mainPc, shared, mpvMutex, mpvCmd, spawned, procs, sock, history, listener>>

(* --------------------------- the mpv process -------------------------- *)
\* a started player creates the socket of --input-ipc-server
BindSocket ==
    /\ \E q \in procs :
         /\ ~q.bound
         /\ procs' = (procs \ {q}) \cup {[q EXCEPT !.bound = TRUE]}
         /\ sock' = q.pid
    /\ UNCHANGED <<mainPc, shared, mpvMutex, mpvCmd, spawned, conns, pc, locals, history, listener>>

(* --------------------------- specifications --------------------------- *)
InitProgram ==
    /\ mainPc = "fetch"
    /\ stations = <<>>
    /\ currentIdx = 0
    /\ currentVol = InitialVol
    /\ mpvMutex = NoThread
    /\ mpvCmd = [isNil |-> TRUE, process |-> NoPid]
    /\ spawned = 0
    /\ procs = {}
    /\ sock = NoPid
    /\ conns = 0
    /\ pc = [t \in Threads |-> IF t = Gamepad THEN "off" ELSE "idle"]
    /\ op = [t \in Threads |-> "none"]
    /\ url = [t \in Threads |-> 0]
    /\ delta = [t \in Threads |-> 0]
    /\ reg = [t \in Threads |-> 0]
    /\ err = [t \in Threads |-> "nil"]
    /\ cnt = [play |-> 0, next |-> 0, prev |-> 0, up |-> 0, down |-> 0, other |-> 0]
    /\ entry = NoVol
    /\ failed = FALSE
    /\ quit = FALSE
    /\ event = NoEvent

\* the program started, the listener and one request goroutine at work
Init == InitProgram /\ lim = [len |-> MaxLen, calls |-> MaxCalls, ops |-> Ops]

Next ==
    \/ Fetch \/ GoListener \/ RunServer
    \/ OpenDevice \/ Select \/ ReadEvent
    \/ Request(Http)
    \/ \E t \in Threads :
         \/ StatusIdx(t) \/ StatusVol(t)
         \/ NextLoad(t) \/ NextStore(t) \/ PrevLoad(t) \/ PrevStore(t) \/ LoadURL(t)
         \/ Lock(t) \/ Kill(t) \/ Remove(t) \/ Spawn(t) \/ Poll(t) \/ Unlock(t)
         \/ VolLoad(t) \/ VolStore(t) \/ VolTest(t) \/ VolClamp(t) \/ VolFormat(t)
         \/ Dial(t) \/ Transfer(t) \/ Respond(t)
    \/ BindSocket

Spec == Init /\ [][Next]_vars

\* A single caller: no button is pressed (the listener stays in its blocking
\* read, or could not open the device) and requests come one at a time.
InitSeq == InitProgram /\ lim = [len |-> SeqMaxLen, calls |-> SeqMaxCalls, ops |-> Ops]

NextSeq ==
    \/ Fetch \/ GoListener \/ RunServer
    \/ OpenDevice \/ Select
    \/ Request(Http)
    \/ StatusIdx(Http) \/ StatusVol(Http)
    \/ NextLoad(Http) \/ NextStore(Http) \/ PrevLoad(Http) \/ PrevStore(Http)
    \/ LoadURL(Http)
    \/ Lock(Http) \/ Kill(Http) \/ Remove(Http) \/ Spawn(Http) \/ Poll(Http)
    \/ Unlock(Http)
    \/ VolLoad(Http) \/ VolStore(Http) \/ VolTest(Http) \/ VolClamp(Http)
    \/ VolFormat(Http)
    \/ Dial(Http) \/ Transfer(Http) \/ Respond(Http)
    \/ BindSocket

SpecSeq == InitSeq /\ [][NextSeq]_vars

\* The listener with its record and its stop signal: the read and the
\* translation of a record are steps of their own, and quit can be closed.
InitPad ==
    InitProgram /\ lim = [len |-> PadMaxLen, calls |-> PadMaxCalls, ops |-> {"play", "stop"}]

NextPad ==
    \/ Fetch \/ GoListener \/ RunServer
    \/ OpenDevice \/ Select \/ ReadRecord \/ ProcessEvent \/ CloseQuit
    \/ Request(Http)
    \/ \E t \in Threads :
         \/ LoadURL(t)
         \/ Lock(t) \/ Kill(t) \/ Remove(t) \/ Spawn(t) \/ Poll(t) \/ Unlock(t)
         \/ VolLoad(t) \/ VolStore(t) \/ VolTest(t) \/ VolClamp(t) \/ VolFormat(t)
         \/ Dial(t) \/ Transfer(t) \/ Respond(t)
    \/ BindSocket

SpecPad == InitPad /\ [][NextPad]_vars

\* SendMPVCommand statement by statement, from the state a first Play() left:
\* a player the program started, which has or has not created its socket yet.
\* A POST /stop or /volup and a second Play() of the gamepad run concurrently.
InitSend ==
    /\ mainPc = "serving"
    /\ stations = Catalog(1)
    /\ currentIdx = 0
    /\ currentVol = InitialVol
    /\ mpvMutex = NoThread
    /\ mpvCmd = [isNil |-> FALSE, process |-> 1]
    /\ spawned = 1
    /\ \E b \in BOOLEAN :
         /\ procs = {[pid |-> 1, url |-> 1, vol |-> IF b THEN InitialVol ELSE NoVol,
                      playing |-> TRUE, bound |-> b]}
         /\ sock = IF b THEN 1 ELSE NoPid
         /\ failed = ~b
    /\ conns = 0
    /\ pc = [t \in Threads |-> IF t = Gamepad THEN "select" ELSE "idle"]
    /\ op = [t \in Threads |-> "none"]
    /\ url = [t \in Threads |-> 0]
    /\ delta = [t \in Threads |-> 0]
    /\ reg = [t \in Threads |-> 0]
    /\ err = [t \in Threads |-> "nil"]
    /\ cnt = [play |-> 1, next |-> 0, prev |-> 0, up |-> 0, down |-> 0, other |-> 0]
    /\ entry = NoVol
    /\ quit = FALSE
    /\ event = NoEvent
    /\ lim = [len |-> 1, calls |-> 1 + SendMaxCalls, ops |-> {"play", "stop", "volup"}]

NextSend ==
    \/ Select \/ ReadEvent
    \/ Request(Http)
    \/ \E t \in Threads :
         \/ LoadURL(t)
         \/ Lock(t) \/ Kill(t) \/ Remove(t) \/ Spawn(t) \/ Poll(t) \/ Unlock(t)
         \/ VolLoad(t) \/ VolStore(t) \/ VolTest(t) \/ VolClamp(t) \/ VolFormat(t)
         \/ Dial(t) \/ Write(t) \/ ReadReply(t) \/ CloseConn(t) \/ Respond(t)
    \/ BindSocket

SpecSend == InitSend /\ [][NextSend]_vars

\* Play and Next from both goroutines under fair scheduling.  The Go
\* scheduler lets every runnable goroutine take its next step (kill, wait and
\* the send complete), and sync.Mutex hands the mutex to a waiter that would
\* otherwise starve.  Nothing obliges mpv to create its socket.
InitLive ==
    InitProgram /\ lim = [len |-> 1, calls |-> LiveMaxCalls, ops |-> {"play", "next"}]

\* the steps of goroutine t inside an operation, the Lock apart
Run(t) ==
    \/ NextLoad(t) \/ NextStore(t) \/ PrevLoad(t) \/ PrevStore(t) \/ LoadURL(t)
    \/ Kill(t) \/ Remove(t) \/ Spawn(t) \/ Poll(t) \/ Unlock(t)
    \/ VolLoad(t) \/ VolStore(t) \/ VolTest(t) \/ VolClamp(t) \/ VolFormat(t)
    \/ Dial(t) \/ Transfer(t) \/ Respond(t)

NextLive ==
    \/ Fetch \/ GoListener \/ RunServer
    \/ OpenDevice \/ Select \/ ReadEvent
    \/ Request(Http)
    \/ \E t \in Threads :
         \/ NextLoad(t) \/ NextStore(t) \/ LoadURL(t)
         \/ Lock(t) \/ Kill(t) \/ Remove(t) \/ Spawn(t) \/ Poll(t) \/ Unlock(t)
         \/ VolLoad(t) \/ VolStore(t) \/ VolTest(t) \/ VolClamp(t) \/ VolFormat(t)
         \/ Dial(t) \/ Transfer(t) \/ Respond(t)
    \/ BindSocket

Fairness == \A t \in Threads : WF_vars(Run(t)) /\ SF_vars(Lock(t))

SpecLive == InitLive /\ [][NextLive]_vars /\ Fairness

\* AdjustVolume as a function of (currentVol, delta): one call by one caller,
\* from any volume in [0, 100], with or without a player that listens.
Deltas == (0 - MaxDelta)..MaxDelta

InitVol ==
    /\ mainPc = "serving"
    /\ stations = Catalog(1)
    /\ currentIdx = 0
    /\ currentVol \in VolMin..VolMax
    /\ mpvMutex = NoThread
    /\ mpvCmd = [isNil |-> FALSE, process |-> 1]
    /\ spawned = 1
    /\ \E b \in BOOLEAN :
         /\ procs = {[pid |-> 1, url |-> 1, vol |-> NoVol, playing |-> TRUE, bound |-> b]}
         /\ sock = IF b THEN 1 ELSE NoPid
    /\ conns = 0
    /\ pc = [t \in Threads |-> IF t = Gamepad THEN "read" ELSE "idle"]
    /\ op = [t \in Threads |-> "none"]
    /\ url = [t \in Threads |-> 0]
    /\ delta = [t \in Threads |-> 0]
    /\ reg = [t \in Threads |-> 0]
    /\ err = [t \in Threads |-> "nil"]
    /\ cnt = [play |-> 1, next |-> 0, prev |-> 0, up |-> 0, down |-> 0, other |-> 0]
    /\ entry = NoVol
    /\ failed = FALSE
    /\ quit = FALSE
    /\ event = NoEvent
    /\ lim = [len |-> 1, calls |-> 1, ops |-> Ops]

\* the call AdjustVolume(d)
Adjust(t, d) ==
    /\ At(t, "idle")
    /\ entry = NoVol
    /\ entry' = currentVol
    /\ pc' = [pc EXCEPT ![t] = "av_load"]
    /\ op' = [op EXCEPT ![t] = "adjust"]
    /\ delta' = [delta EXCEPT ![t] = d]
    /\ UNCHANGED <<mainPc, shared, player, url, reg, err, cnt, failed, lim, listener>>

NextVol ==
    \/ \E d \in Deltas : Adjust(Http, d)
    \/ VolLoad(Http) \/ VolStore(Http) \/ VolTest(Http) \/ VolClamp(Http)
    \/ VolFormat(Http)
    \/ Dial(Http) \/ Transfer(Http) \/ Respond(Http)

SpecVol == InitVol /\ [][NextVol]_vars

(* ------------------------------- claims ------------------------------- *)
\* goroutine t is inside an operation (it has not returned yet)
Busy(t) ==
    pc[t] \notin {"off", "open", "select", "read", "process", "ended", "stopped", "idle",
                  "ret"}
Quiet == \A t \in Threads : ~Busy(t)
\* goroutine t is between mpvMutex.Lock() and the deferred Unlock of StartMPV
InStartMPV(t) ==
    op[t] \in StartOps /\ pc[t] \notin {"pl_url", "nx_load", "nx_store", "pv_load",
                                        "pv_store", "lock", "ret"}
InKillSpawn(t) == pc[t] \in {"kill", "remove", "spawn"}
\* the pids of the live players
Pids == {q.pid : q \in procs}
\* the player the handle mpvCmd refers to, when it is alive
CurrentPlayers == {q \in procs : ~mpvCmd.isNil /\ q.pid = mpvCmd.process}

\* C1: once k >= 2 Next() calls (and no Previous()) have all completed on a
\* non-empty catalog of length L, starting from index 0, currentIdx = k mod L:
\* no interleaving loses an increment.
C1_NoLostIncrement ==
    (Len0 >= 1 /\ cnt.next >= 2 /\ cnt.prev = 0 /\ Quiet)
        => currentIdx = cnt.next % Len0

\* C2: station switches are not interleaved; hence, whenever no operation is in
\* progress and the last Start succeeded, the live player was started with
\* stations[currentIdx].url.
C2_PlayerPlaysCurrent ==
    (Len0 >= 1 /\ Quiet /\ ~mpvCmd.isNil /\ mpvCmd.process # NoPid)
        => \A q \in CurrentPlayers : q.url = StationAt(currentIdx).url

\* C3: at most one spawned player is alive, and no two StartMPV calls are inside
\* the kill / remove-socket / spawn sequence (nor anywhere between Lock and
\* Unlock) at the same time; the one inside holds mpvMutex.
C3_OnePlayerOneStarter ==
    /\ Cardinality(procs) <= 1
    /\ \A t, u \in Threads : (InKillSpawn(t) /\ InKillSpawn(u)) => t = u
    /\ \A t, u \in Threads : (InStartMPV(t) /\ InStartMPV(u)) => t = u
    /\ \A t \in Threads : InStartMPV(t) => mpvMutex = t

\* C3 witness: one caller has spawned its player and still holds the mutex
\* while the other one waits for it.
C3_Witness ==
    /\ pc[Http] = "poll" /\ mpvMutex = Http /\ pc[Gamepad] = "lock"
    /\ Cardinality(procs) = 1

\* the volumes that cnt.up calls of +10 and cnt.down calls of -10, applied one
\* at a time in some order, can leave
RECURSIVE SerialVols(_, _, _)
SerialVols(v, u, d) ==
    IF u = 0 /\ d = 0 THEN {v}
    ELSE (IF u > 0 THEN SerialVols(Clamp(v + VolStep), u - 1, d) ELSE {})
         \cup (IF d > 0 THEN SerialVols(Clamp(v - VolStep), u, d - 1) ELSE {})

\* C4: AdjustVolume is atomic: when no call is running, currentVol is what the
\* calls made so far (those of StartMPV have delta 0) give one at a time in
\* some order.
C4_VolumeSerial ==
    Quiet => currentVol \in SerialVols(InitialVol, cnt.up, cnt.down)

\* C5: in every state, also in the middle of an operation, currentIdx is an
\* index of the non-empty catalog and 0 <= currentVol <= 100.  Stated for the
\* calls the program makes: a volume that is a multiple of 10, a delta of +-10.
C5_StateInRange ==
    (Len0 >= 1 /\ entry % VolStep = 0 /\ delta[Http] \in {VolStep, 0 - VolStep})
        => (InRange(currentIdx) /\ VolMin <= currentVol /\ currentVol <= VolMax)

\* C6: with an empty fetched list startup fails before the listener is started
\* and before the server is opened, so no operation ever runs against a
\* catalog of length 0.
C6_EmptyCatalogFailsFast ==
    Len0 = 0 => /\ pc[Gamepad] = "off"
                /\ mainPc \notin {"run", "serving", "crashed"}
                /\ \A t \in Threads : ~Busy(t)

\* C7: with a single caller AdjustVolume(d) from a volume v in [0, 100] leaves
\* currentVol = min(100, max(0, v + d)), the set_property message carries that
\* value, and the call fails only when the channel is unavailable, never
\* because the value saturated.
C7_SaturatingVolume ==
    LET t == Http
        want == Clamp(entry + delta[t])
    IN  (entry # NoVol /\ op[t] = "adjust") =>
          /\ pc[t] \in {"av_fmt", "dial", "xfer", "ret"} => currentVol = want
          /\ pc[t] \in {"dial", "xfer"} => reg[t] = want
          /\ pc[t] = "ret" =>
               /\ err[t] = "nil" <=> Listening
               /\ err[t] = "nil" => \A q \in procs : q.vol = want

\* C7 witness: +10 from 95 returned without error with volume 100, which is
\* also what the player received
C7_Witness ==
    /\ pc[Http] = "ret" /\ err[Http] = "nil"
    /\ entry = 95 /\ delta[Http] = 10 /\ currentVol = 100
    /\ \E q \in procs : q.vol = 100

\* C8: with a single caller on a catalog of length L >= 1, N Next() calls from
\* index 0 leave currentIdx = N mod L and N Previous() calls leave
\* currentIdx = (-N) mod L; each call starts the player on the URL of the
\* station at the resulting index.
C8_SequentialIndex ==
    LET t == Http
        switched == op[t] \in {"next", "prev"} /\ pc[t] \notin {"nx_load", "nx_store",
                                                              "pv_load", "pv_store"}
    IN  Len0 >= 1 =>
          /\ (~Busy(t) \/ switched) =>
               /\ InRange(currentIdx)
               /\ cnt.prev = 0 => currentIdx = cnt.next % Len0
               /\ cnt.next = 0 => currentIdx = (0 - cnt.prev) % Len0
               /\ currentIdx = (cnt.next - cnt.prev) % Len0
          /\ (switched /\ pc[t] \notin {"pl_url", "ret"}) =>
               url[t] = StationAt(currentIdx).url
          /\ (switched /\ pc[t] = "ret" /\ err[t] = "nil") =>
               /\ url[t] = StationAt(currentIdx).url
               /\ procs = {q \in procs : q.pid = spawned /\ q.url = url[t]}
               /\ procs # {}

\* C8 witness: three Next() calls on three stations are back at index 0, the
\* third call having started the player on station 0
C8_Witness ==
    /\ Len0 = 3 /\ cnt.next = 3 /\ cnt.prev = 0 /\ currentIdx = 0
    /\ pc[Http] = "ret" /\ op[Http] = "next" /\ err[Http] = "nil"
    /\ \E q \in procs : q.pid = spawned /\ q.url = StationAt(0).url

\* C9: Play() is idempotent: no step of a Play() call changes currentIdx or
\* currentVol, the call starts stations[currentIdx].url, and when it returns
\* without error exactly one player is alive, the one it spawned (so two Play()
\* calls in a row select and start the same station, the second superseding
\* the first).
C9_PlayIdempotent ==
    /\ [][(op[Http] = "play" /\ Busy(Http))
            => (currentIdx' = currentIdx /\ currentVol' = currentVol)]_vars
    /\ []((op[Http] = "play" /\ InRange(currentIdx) /\ pc[Http] # "pl_url")
            => url[Http] = StationAt(currentIdx).url)
    /\ []((op[Http] = "play" /\ pc[Http] = "ret" /\ err[Http] = "nil")
            => /\ Cardinality(procs) = 1
               /\ \A q \in procs : q.pid = spawned /\ q.url = url[Http])

\* C9 witness: the second of two Play() calls in a row has returned; the
\* player it spawned (the second one) is the only one alive
C9_Witness ==
    /\ cnt = [play |-> 2, next |-> 0, prev |-> 0, up |-> 0, down |-> 0, other |-> 0]
    /\ pc[Http] = "ret" /\ op[Http] = "play" /\ err[Http] = "nil"
    /\ spawned = 2 /\ Cardinality(procs) = 1
    /\ \A q \in procs : q.pid = 2 /\ q.url = StationAt(currentIdx).url
    /\ currentIdx = 0 /\ currentVol = InitialVol

\* C10: no step of a Stop() call changes the process handle, the set of live
\* players, currentIdx or currentVol; a player is terminated only by the kill
\* of a later StartMPV (the program has no other kill, not even at shutdown).
C10_StopLeavesPlayer ==
    /\ [][\A t \in Threads : (op[t] = "stop" /\ pc'[t] # pc[t])
            => /\ mpvCmd' = mpvCmd /\ Pids' = Pids
               /\ currentIdx' = currentIdx /\ currentVol' = currentVol]_vars
    /\ [][Pids \subseteq Pids'
            \/ \E t \in Threads : pc[t] = "kill" /\ pc'[t] = "remove"]_vars

\* C10 witness: a Stop() has returned without error and the player it stopped
\* is alive, idle
C10_Witness ==
    \E t \in Threads :
        /\ op[t] = "stop" /\ pc[t] = "ret" /\ err[t] = "nil"
        /\ \E q \in procs : ~q.playing /\ ~mpvCmd.isNil /\ q.pid = mpvCmd.process

\* C11: asked to shut down while a player it spawned is alive, the program
\* attempts to terminate that player before it exits: the program has not
\* exited (log.Fatalf of main) with a spawned player still running.
C11_KillBeforeExit ==
    mainPc = "fatal" => procs = {}

\* C12: the translator dispatches an operation only for a record with
\* Type = 1 (button) and Value = 1 (pressed), and then the operation its button
\* is mapped to; for every other record no operation is invoked and neither
\* the index, the volume, the process handle nor the players change.
C12_OnlyPressedButtons ==
    [][(pc[Gamepad] = "process" /\ pc'[Gamepad] # "process") =>
         IF event.Type = ButtonType /\ event.Value = Pressed
                                    /\ ButtonOp(event.Number) # "none"
         THEN /\ op'[Gamepad] = ButtonOp(event.Number)
              /\ pc'[Gamepad] = FirstPc(ButtonOp(event.Number))
         ELSE /\ pc'[Gamepad] = "select" /\ op' = op /\ cnt' = cnt
              /\ currentIdx' = currentIdx /\ currentVol' = currentVol
              /\ mpvCmd' = mpvCmd /\ procs' = procs /\ mpvMutex' = mpvMutex]_vars

\* C12 witness: the release of the Play button was read and ignored: nothing
\* was called and no player exists
C12_Witness ==
    /\ event = [Type |-> ButtonType, Value |-> 0, Number |-> config.Play]
    /\ pc[Gamepad] = "select" /\ op[Gamepad] = "none"
    /\ Calls = 0 /\ procs = {} /\ mpvCmd.isNil

\* C13: an error returned by an operation dispatched from a button press does
\* not end the listener: it goes back to its loop and a later press is
\* dispatched.  The listener ends only by a device error (open or read) or by
\* the stop signal, and its end leaves main() and the HTTP handlers running.
C13_ListenerSurvivesErrors ==
    /\ [][(pc[Gamepad] = "ret" /\ pc'[Gamepad] # "ret") => pc'[Gamepad] = "select"]_vars
    /\ [][(failed /\ pc[Gamepad] = "process" /\ pc'[Gamepad] # "process"
             /\ event.Type = ButtonType /\ event.Value = Pressed
             /\ event.Number \in {config.Play, config.Stop})
            => (op'[Gamepad] \in {"play", "stop"} /\ Busy(Gamepad)')]_vars
    /\ [][(pc'[Gamepad] \in {"ended", "stopped"} /\ pc[Gamepad] \notin {"ended", "stopped"})
            => /\ \/ pc[Gamepad] \in {"open", "read"} /\ pc'[Gamepad] = "ended"
                  \/ pc[Gamepad] = "select" /\ quit /\ pc'[Gamepad] = "stopped"
               /\ mainPc' = mainPc /\ pc'[Http] = pc[Http]]_vars
    /\ []((pc[Gamepad] \in {"ended", "stopped"} /\ mainPc = "serving"
             /\ pc[Http] = "idle" /\ Calls < lim.calls)
            => ENABLED Request(Http))

\* C13 witness: before the server was up, a Stop from the gamepad failed (no
\* player, channel unavailable) and the next press, Play, has been dispatched
C13_Witness ==
    /\ mainPc = "run" /\ failed
    /\ cnt.other = 1 /\ cnt.play = 1
    /\ op[Gamepad] = "play" /\ pc[Gamepad] = "pl_url"

\* C18: the listener consults the stop signal once per iteration, before the
\* blocking read and nowhere else: with the signal raised it issues no new
\* read and returns nil from the select; only a read already in flight can
\* still deliver one record, which is dispatched.
C18_QuitCheckedBeforeRead ==
    /\ [][(quit /\ pc[Gamepad] = "select" /\ pc'[Gamepad] # "select")
            => pc'[Gamepad] = "stopped"]_vars
    /\ [][(~quit /\ pc[Gamepad] = "select" /\ pc'[Gamepad] # "select")
            => pc'[Gamepad] = "read"]_vars
    /\ [][(quit /\ pc[Gamepad] # "read") => pc'[Gamepad] # "read"]_vars
    /\ [][(pc'[Gamepad] = "stopped" /\ pc[Gamepad] # "stopped")
            => pc[Gamepad] = "select"]_vars

\* C18 witness: the signal was raised, a record has been read and its
\* operation dispatched, and the listener has returned nil
C18_Witness ==
    /\ quit /\ pc[Gamepad] = "stopped"
    /\ event # NoEvent /\ Calls >= 1 /\ mainPc = "run"

\* C14: a StartMPV whose spawn fails returns the error to its caller with the
\* mutex released (a spawn that succeeds leaves the new player alive); the
\* mutex is free whenever no StartMPV is running, so a later call is not
\* blocked; and a later call that finds the never-started handle skips the
\* kill and the wait and goes on.
C14_SpawnFailureReleases ==
    /\ [][\A t \in Threads : (pc[t] = "spawn" /\ pc'[t] # "spawn") =>
            \/ pc'[t] = "poll" /\ mpvMutex' = t /\ mpvCmd'.process \in Pids'
            \/ /\ pc'[t] = "ret" /\ err'[t] = "spawn" /\ mpvMutex' = NoThread
               /\ mpvCmd'.process = NoPid /\ Pids' = Pids /\ mainPc' = mainPc]_vars
    /\ []((\A t \in Threads : ~InStartMPV(t)) => mpvMutex = NoThread)
    /\ [][\A t \in Threads :
            (pc[t] = "kill" /\ pc'[t] # "kill" /\ mpvCmd.process = NoPid)
                => (pc'[t] = "remove" /\ Pids' = Pids /\ mainPc' = mainPc)]_vars

\* C14 witness: after a failed spawn left the never-started handle, a later
\* StartMPV has taken the mutex and passed the kill
C14_Witness ==
    \E t \in Threads :
        /\ pc[t] = "remove" /\ mpvMutex = t
        /\ ~mpvCmd.isNil /\ mpvCmd.process = NoPid

\* the goroutines that hold a connection to the socket
Connected == {t \in Threads : pc[t] \in {"xfer", "reply", "close", "warn"}}

\* C15: SendMPVCommand returns an error exactly when net.Dial or conn.Write
\* fails; once the message is written it returns nil, whether the reply was
\* read or not.  Each call opens one connection of its own and has closed it
\* when it returns.
C15_SendErrors ==
    /\ [][\A t \in Threads : (pc[t] = "dial" /\ pc'[t] # "dial") =>
            IF Listening
            THEN pc'[t] = "xfer" /\ conns' = conns + 1 /\ failed' = failed
            ELSE /\ conns' = conns /\ failed'
                 /\ op[t] \notin StartOps => (pc'[t] = "ret" /\ err'[t] = "channel")]_vars
    /\ [][\A t \in Threads : (pc[t] = "xfer" /\ pc'[t] # "xfer") =>
            IF Listening
            THEN pc'[t] = "reply" /\ conns' = conns /\ failed' = failed
            ELSE /\ conns' = conns - 1 /\ failed'
                 /\ op[t] \notin StartOps => (pc'[t] = "ret" /\ err'[t] = "channel")]_vars
    /\ [][\A t \in Threads : (pc[t] = "reply" /\ pc'[t] # "reply") =>
            (pc'[t] \in {"close", "warn"} /\ conns' = conns /\ failed' = failed)]_vars
    /\ [][\A t \in Threads : (pc[t] \in {"close", "warn"} /\ pc'[t] # pc[t]) =>
            /\ conns' = conns - 1 /\ failed' = failed
            /\ op[t] \notin StartOps => (pc'[t] = "ret" /\ err'[t] = "nil")
            /\ op[t] \in StartOps => pc'[t] = "unlock"]_vars
    /\ [](conns = Cardinality(Connected))

\* C15 witness: a Stop() has written its message (the player is idle), could
\* not read the reply and is about to return nil
C15_Witness ==
    \E t \in Threads :
        /\ pc[t] = "warn" /\ op[t] = "stop" /\ conns = 1
        /\ \E q \in procs : ~q.playing /\ q.pid = sock

\* C16: every StartMPV that succeeds sends the new player a set_property volume
\* message before it returns, while it holds the mutex; the re-apply is
\* AdjustVolume(0), so no step of a StartMPV changes currentVol; and a failure
\* of that send does not make StartMPV fail.
C16_StartReappliesVolume ==
    /\ [][\A t \in Threads : (op[t] \in StartOps /\ pc'[t] # pc[t])
            => currentVol' = currentVol]_vars
    /\ [][\A t \in Threads : (op[t] \in StartOps /\ pc'[t] = "unlock" /\ pc[t] # "unlock")
            => (pc[t] \in {"dial", "xfer"} /\ delta[t] = 0 /\ mpvMutex = t)]_vars
    /\ [][\A t \in Threads : (pc[t] = "unlock" /\ pc'[t] # "unlock")
            => (pc'[t] = "ret" /\ err'[t] = "nil")]_vars

\* C17: under fair scheduling every StartMPV that has taken the mutex returns
\* and releases it, and every caller waiting for the mutex gets it (unless the
\* program exits first); the poll makes at most 50 checks and then goes on
\* without the socket; and nothing inside StartMPV, the volume re-apply
\* included, takes the mutex again.
C17_StartReturns ==
    /\ \A t \in Threads :
         (pc[t] = "kill") ~> (Exited \/ (pc[t] = "ret" /\ mpvMutex # t))
    /\ \A t \in Threads : (pc[t] = "lock") ~> (Exited \/ pc[t] = "kill")
    /\ [](\A t \in Threads : pc[t] = "poll" => reg[t] <= PollLimit)
    /\ [][\A t \in Threads : (pc[t] = "poll" /\ reg[t] = PollLimit /\ pc'[t] # "poll")
            => pc'[t] = "av_load"]_vars
    /\ [][\A t \in Threads : InStartMPV(t) => pc'[t] # "lock"]_vars

\* C17 witness: the poll has made its 50 checks without the socket appearing
\* while the other goroutine waits for the mutex
C17_Witness ==
    \E t, u \in Threads :
        /\ pc[t] = "poll" /\ reg[t] = PollLimit /\ sock = NoPid /\ mpvMutex = t
        /\ pc[u] = "lock"

\* C19: whenever no operation is in progress, a player is live and every
\* SendMPVCommand so far has succeeded, the volume of the last set_property
\* message that player received is currentVol.
C19_PlayerVolumeCurrent ==
    (Quiet /\ ~failed /\ procs # {}) => \A q \in procs : q.vol = currentVol

\* C20: when Next() or Previous() returns the error of a failed spawn,
\* currentIdx has been moved and stays moved, the player that was running has
\* been killed and none is live; a GET /status that follows reports the
\* station at the new index.  (A single caller.)
C20_FailedSwitchKeepsIndex ==
    Len0 >= 1 =>
      /\ (op[Http] \in {"next", "prev"} /\ pc[Http] = "ret" /\ err[Http] = "spawn") =>
           /\ currentIdx = (cnt.next - cnt.prev) % Len0
           /\ procs = {}
           /\ ~mpvCmd.isNil /\ mpvCmd.process = NoPid
      /\ (op[Http] = "status" /\ pc[Http] = "ret" /\ ~mpvCmd.isNil
            /\ mpvCmd.process = NoPid) =>
           /\ currentIdx = (cnt.next - cnt.prev) % Len0
           /\ url[Http] = StationAt(currentIdx).name
           /\ procs = {}

\* C20 witness: Play() started station 0, the spawn of Next() failed, and
\* GET /status has reported station 1 while no player is alive
C20_Witness ==
    /\ Len0 >= 2 /\ cnt.play = 1 /\ cnt.next = 1 /\ cnt.prev = 0 /\ cnt.other = 1
    /\ op[Http] = "status" /\ pc[Http] = "ret"
    /\ spawned = 1 /\ procs = {} /\ mpvCmd.process = NoPid
    /\ currentIdx = 1 /\ url[Http] = StationAt(1).name

====
